---- MODULE Spec2Model ----
(***************************************************************************)
(* Job Dependency Visualizer (src/app.py).                                 *)
(*                                                                         *)
(* Strings are sequences of one-character strings, so that split(',') and  *)
(* strip() are computed character by character.  A table (DataFrame) is a  *)
(* sequence of rows [ID, Name, Dependencies].  A dictionary is a sequence  *)
(* of [key, value] items in insertion order.  The directed graph keeps     *)
(* networkx's insertion order of nodes and of adjacency lists.             *)
(*                                                                         *)
(* Spec          : the Streamlit script main(), re-run on every widget     *)
(*                 interaction, over session_state.                        *)
(* PipelineSpec  : the pure functions applied to one input table.          *)
(***************************************************************************)
EXTENDS Naturals, Integers, Sequences, FiniteSets, TLC

VARIABLES jobs_df, jobs_updated, edited_jobs_df, message,
          invalid_dependencies, G, layers, ordered_jobs_df, uncaught, pc

vars == <<jobs_df, jobs_updated, edited_jobs_df, message,
          invalid_dependencies, G, layers, ordered_jobs_df, uncaught, pc>>

----------------------------------------------------------------------------
(* Values *)

\* None / NaN cell of a DataFrame (no string has a character of this name)
None == <<"None">>

\* NaN produced by Series.map for a key the mapping lacks
NaN == <<"NaN">>

Range(s) == {s[i] : i \in 1..Len(s)}

----------------------------------------------------------------------------
(* str.split(',') and str.strip() *)

Whitespace == {" "}

RECURSIVE lstrip(_)
lstrip(s) == IF s # <<>> /\ Head(s) \in Whitespace THEN lstrip(Tail(s)) ELSE s

RECURSIVE rstrip(_)
rstrip(s) ==
    IF s # <<>> /\ s[Len(s)] \in Whitespace
    THEN rstrip(SubSeq(s, 1, Len(s) - 1))
    ELSE s

strip(s) == rstrip(lstrip(s))

RECURSIVE split(_)
split(s) ==
    IF \E i \in 1..Len(s) : s[i] = ","
    THEN LET i == CHOOSE j \in 1..Len(s) :
                      s[j] = "," /\ \A k \in 1..(j - 1) : s[k] # ","
         IN <<SubSeq(s, 1, i - 1)>> \o split(SubSeq(s, i + 1, Len(s)))
    ELSE <<s>>

\* Python truthiness of a Dependencies cell: None and "" are falsy
Truthy(cell) == cell # None /\ cell # <<>>

\* row["Dependencies"].split(',') if row["Dependencies"] else []
dependencies_of(row) ==
    IF Truthy(row.Dependencies) THEN split(row.Dependencies) ELSE <<>>

----------------------------------------------------------------------------
(* Dictionaries as item sequences in insertion order *)

Keys(d) == {d[i].key : i \in 1..Len(d)}

Lookup(d, k) == (CHOOSE i \in 1..Len(d) : d[i].key = k)

Get(d, k) == d[Lookup(d, k)].value

\* d[k] = v : an existing key keeps its position
Put(d, k, v) ==
    IF k \in Keys(d)
    THEN [d EXCEPT ![Lookup(d, k)].value = v]
    ELSE Append(d, [key |-> k, value |-> v])

----------------------------------------------------------------------------
(* process_jobs_from_input *)

RECURSIVE process_jobs_from_input(_)
process_jobs_from_input(df) ==
    IF df = <<>> THEN <<>>
    ELSE <<[job_id |-> Head(df).ID,
            job_name |-> Head(df).Name,
            dependencies |-> dependencies_of(Head(df))]>>
         \o process_jobs_from_input(Tail(df))

----------------------------------------------------------------------------
(* validate_dependencies *)

job_ids(df) == {df[i].ID : i \in 1..Len(df)}

RECURSIVE StripAll(_)
StripAll(deps) ==
    IF deps = <<>> THEN <<>> ELSE <<strip(Head(deps))>> \o StripAll(Tail(deps))

\* [dep.strip() for dep in dependencies if dep.strip() not in job_ids]
invalid_deps(row, ids) ==
    LET NotKnown(d) == d \notin ids
    IN SelectSeq(StripAll(dependencies_of(row)), NotKnown)

RECURSIVE validate_rows(_, _, _)
validate_rows(df, ids, acc) ==
    IF df = <<>> THEN acc
    ELSE LET bad == invalid_deps(Head(df), ids)
         IN validate_rows(Tail(df), ids,
                          IF bad # <<>> THEN Put(acc, Head(df).ID, bad) ELSE acc)

validate_dependencies(df) == validate_rows(df, job_ids(df), <<>>)

----------------------------------------------------------------------------
(* build_dependency_graph : nx.DiGraph with insertion-ordered adjacency *)

NoGraph == [built |-> FALSE, nodes |-> <<>>, succ |-> <<>>, pred |-> <<>>]

EmptyDiGraph == [built |-> TRUE, nodes |-> <<>>, succ |-> <<>>, pred |-> <<>>]

add_node(g, n) ==
    IF n \in Range(g.nodes) THEN g
    ELSE [g EXCEPT !.nodes = Append(@, n),
                   !.succ = (n :> <<>>) @@ @,
                   !.pred = (n :> <<>>) @@ @]

add_edge(g, u, v) ==
    LET g1 == add_node(add_node(g, u), v)
    IN IF v \in Range(g1.succ[u]) THEN g1
       ELSE [g1 EXCEPT !.succ[u] = Append(@, v), !.pred[v] = Append(@, u)]

RECURSIVE add_dependencies(_, _, _)
add_dependencies(g, deps, job_id) ==
    IF deps = <<>> THEN g
    ELSE add_dependencies(
             IF Head(deps) # <<>> THEN add_edge(g, Head(deps), job_id) ELSE g,
             Tail(deps), job_id)

RECURSIVE build_graph_from(_, _)
build_graph_from(jobs, g) ==
    IF jobs = <<>> THEN g
    ELSE build_graph_from(
             Tail(jobs),
             add_dependencies(add_node(g, Head(jobs).job_id),
                              Head(jobs).dependencies, Head(jobs).job_id))

RECURSIVE names_from(_, _)
names_from(jobs, d) ==
    IF jobs = <<>> THEN d
    ELSE names_from(Tail(jobs), Put(d, Head(jobs).job_id, Head(jobs).job_name))

build_dependency_graph(jobs) ==
    [G |-> build_graph_from(jobs, EmptyDiGraph),
     job_id_to_name |-> names_from(jobs, <<>>)]

----------------------------------------------------------------------------
(* nx.topological_sort(G), as called by assign_layers: the generations of   *)
(* Kahn's algorithm, each in discovery order; the iteration raises          *)
(* NetworkXUnfeasible at its end when nodes with unmet in-degree remain.    *)

in_degree(g, n) == Len(g.pred[n])

NodeSet(g) == Range(g.nodes)

\* for child in G.neighbors(node): indegree_map[child] -= 1; collect the zeros
RECURSIVE visit_children(_, _, _)
visit_children(children, indeg, zero) ==
    IF children = <<>> THEN [indeg |-> indeg, zero |-> zero]
    ELSE LET c == Head(children)
             d == indeg[c] - 1
         IN visit_children(Tail(children), [indeg EXCEPT ![c] = d],
                           IF d = 0 THEN Append(zero, c) ELSE zero)

\* for node in this_generation: ...
RECURSIVE visit_generation(_, _, _, _)
visit_generation(g, this_generation, indeg, zero) ==
    IF this_generation = <<>> THEN [indeg |-> indeg, zero |-> zero]
    ELSE LET r == visit_children(g.succ[Head(this_generation)], indeg, zero)
         IN visit_generation(g, Tail(this_generation), r.indeg, r.zero)

\* while zero_indegree: ...
RECURSIVE generations(_, _, _, _)
generations(g, indeg, zero_indegree, yielded) ==
    IF zero_indegree = <<>>
    THEN [order |-> yielded,
          unfeasible |-> \E n \in NodeSet(g) : indeg[n] > 0]
    ELSE LET r == visit_generation(g, zero_indegree, indeg, <<>>)
         IN generations(g, r.indeg, r.zero, yielded \o zero_indegree)

topological_sort(g) ==
    LET ZeroIn(n) == in_degree(g, n) = 0
    IN generations(g, [n \in NodeSet(g) |-> in_degree(g, n)],
                   SelectSeq(g.nodes, ZeroIn), <<>>)

----------------------------------------------------------------------------
(* assign_layers *)

Max(S) == CHOOSE x \in S : \A y \in S : y <= x

Min(S) == CHOOSE x \in S : \A y \in S : x <= y

\* max(layers[pred] for pred in G.predecessors(node)) + 1, with the mistake
\* of taking the smallest predecessor layer
layer_of_min(g, node, done) ==
    IF in_degree(g, node) = 0 THEN 0
    ELSE Min({Get(done, p) : p \in Range(g.pred[node])}) + 1

\* ... with the mistake of leaving out the + 1
layer_of_nostep(g, node, done) ==
    IF in_degree(g, node) = 0 THEN 0
    ELSE Max({Get(done, p) : p \in Range(g.pred[node])})

\* the body of the loop of assign_layers for one node
layer_of(g, node, done) ==
    IF in_degree(g, node) = 0 THEN 0
    ELSE Max({Get(done, p) : p \in Range(g.pred[node])}) + 1

RECURSIVE assign_in_order(_, _, _)
assign_in_order(g, order, done) ==
    IF order = <<>> THEN done
    ELSE assign_in_order(g, Tail(order),
                         Put(done, Head(order), layer_of(g, Head(order), done)))

NoLayers == [returned |-> FALSE, items |-> <<>>]

\* The loop consumes the generator, so an unfeasible graph raises out of the
\* function after the feasible prefix was assigned: nothing is returned.
assign_layers(g) ==
    LET ts == topological_sort(g)
    IN IF ts.unfeasible THEN NoLayers
       ELSE [returned |-> TRUE, items |-> assign_in_order(g, ts.order, <<>>)]

----------------------------------------------------------------------------
(* visualize_jobs *)

\* sorted(items, key=lambda x: x[1]) is stable: an item goes after every
\* item whose key is not larger
RECURSIVE insert_sorted(_, _)
insert_sorted(sorted, x) ==
    IF sorted = <<>> THEN <<x>>
    ELSE IF Head(sorted).value <= x.value
         THEN <<Head(sorted)>> \o insert_sorted(Tail(sorted), x)
         ELSE <<x>> \o sorted

RECURSIVE sorted_by_layer(_)
sorted_by_layer(items) ==
    IF items = <<>> THEN <<>>
    ELSE insert_sorted(sorted_by_layer(SubSeq(items, 1, Len(items) - 1)),
                       items[Len(items)])

\* sorted(...) with the mistake reverse=True
ordered_jobs_desc(shifted) ==
    LET s == sorted_by_layer(shifted)
    IN [i \in 1..Len(s) |-> s[Len(s) + 1 - i]]

\* ordered_jobs = sorted(layers.items(), key=lambda x: x[1])
ordered_jobs(shifted) == sorted_by_layer(shifted)

\* {node: layer + 1 for node, layer in layers.items()}
shift_layers(items) ==
    [i \in 1..Len(items) |-> [key |-> items[i].key, value |-> items[i].value + 1]]

NotShown == [shown |-> FALSE, rows |-> <<>>]

\* ordered_jobs_df[['Layer', 'Job ID', 'Name']]
ordered_rows(ordered, job_id_to_name) ==
    [i \in 1..Len(ordered) |->
        [Layer |-> ordered[i].value,
         JobID |-> ordered[i].key,
         Name |-> IF ordered[i].key \in Keys(job_id_to_name)
                  THEN Get(job_id_to_name, ordered[i].key)
                  ELSE NaN]]

visualize_jobs(df) ==
    LET jobs == process_jobs_from_input(df)
        b == build_dependency_graph(jobs)
        l == assign_layers(b.G)
    IN [G |-> b.G,
        layers |-> l,
        raised |-> ~l.returned,
        ordered_jobs_df |->
            IF l.returned
            THEN [shown |-> TRUE,
                  rows |-> ordered_rows(ordered_jobs(shift_layers(l.items)),
                                        b.job_id_to_name)]
            ELSE NotShown]

----------------------------------------------------------------------------
(* Input tables *)

\* PipelineSpec: rows of a table plus dependency tokens in it, at most
MaxSize == 5

\* Spec: rows in the data editor, at most
MaxEditorRows == 2

Ids == {<<"A">>, <<"B">>, <<"C">>}

\* dependency tokens as typed between commas: plain, padded, empty
Tokens == {<<"A">>, <<"B">>, <<" ", "B">>, <<"A", " ">>, <<>>}

RECURSIVE join(_)
join(tokens) ==
    IF Len(tokens) = 1 THEN Head(tokens)
    ELSE Head(tokens) \o <<",">> \o join(Tail(tokens))

\* the tokens toks[j] typed into row i, in order
TokensOfRow(toks, owner, i) ==
    LET Mine(j) == owner[j] = i
        idx == SelectSeq([j \in 1..Len(toks) |-> j], Mine)
    IN [j \in 1..Len(idx) |-> toks[idx[j]]]

\* a cell never typed into is None
DependenciesCell(tokens) == IF tokens = <<>> THEN None ELSE join(tokens)

TableOf(ids, toks, owner) ==
    [i \in 1..Len(ids) |->
        [ID |-> ids[i],
         Name |-> <<"n", i>>,
         Dependencies |-> DependenciesCell(TokensOfRow(toks, owner, i))]]

\* a token belongs to a row, and tokens are typed row after row
Owners(n, k) ==
    {o \in [1..k -> 1..n] : \A a, b \in 1..k : a < b => o[a] <= o[b]}

\* edited_jobs_df is one of the tables within MaxSize
IsInputTable(df) ==
    \E n \in 0..MaxSize :
      \E k \in 0..(IF n = 0 THEN 0 ELSE MaxSize - n) :
        \E ids \in [1..n -> Ids], toks \in [1..k -> Tokens], owner \in Owners(n, k) :
          df = TableOf(ids, toks, owner)

\* rows a user can type into the data editor
EditorRows ==
    {[ID |-> <<"A">>, Name |-> <<"a">>, Dependencies |-> None],
     [ID |-> <<"A">>, Name |-> <<"a">>, Dependencies |-> <<"B">>],
     [ID |-> <<"B">>, Name |-> <<"b">>, Dependencies |-> <<>>],
     [ID |-> <<"B">>, Name |-> <<"b">>, Dependencies |-> <<"A">>],
     [ID |-> <<"B">>, Name |-> <<"b">>, Dependencies |-> <<" ", "A">>],
     [ID |-> None, Name |-> <<"c">>, Dependencies |-> None],
     [ID |-> <<"C">>, Name |-> None, Dependencies |-> None]}

----------------------------------------------------------------------------
(* main : one run of the script *)

EmptyDataFrame == <<>>

\* edited_jobs_df.dropna(subset=['ID', 'Name']) then reset_index(drop=True)
dropna(df) ==
    LET Complete(row) == row.ID # None /\ row.Name # None
    IN SelectSeq(df, Complete)

\* edited_jobs_df.empty or edited_jobs_df.isnull().all().all()
is_blank(df) ==
    \/ df = <<>>
    \/ \A i \in 1..Len(df) :
          df[i].ID = None /\ df[i].Name = None /\ df[i].Dependencies = None

\* the texts of st.error / st.success; the invalid-dependency text is followed
\* by one line per entry of invalid_dependencies
BlankMessage == "Please enter job details and dependencies."

InvalidMessage == "Invalid dependencies found"

SuccessMessage == "Jobs updated successfully."

\* st.error("Please enter job details and dependencies.")
on_blank(cleaned, invalid, snapshot, updated) ==
    [message |-> BlankMessage,
     invalid |-> invalid, jobs_df |-> snapshot, jobs_updated |-> updated]

\* the invalid branch with the mistake of committing the edited table
on_invalid_commits(cleaned, invalid, snapshot, updated) ==
    [message |-> InvalidMessage,
     invalid |-> invalid, jobs_df |-> cleaned, jobs_updated |-> FALSE]

\* the invalid branch with the mistake of leaving the flag as it was
on_invalid_keeps_flag(cleaned, invalid, snapshot, updated) ==
    [message |-> InvalidMessage,
     invalid |-> invalid, jobs_df |-> snapshot, jobs_updated |-> updated]

\* st.error(error_message); jobs_updated = False
on_invalid(cleaned, invalid, snapshot, updated) ==
    [message |-> InvalidMessage,
     invalid |-> invalid, jobs_df |-> snapshot, jobs_updated |-> FALSE]

\* the success branch with the mistake of not storing the edited table
on_valid_keeps_snapshot(cleaned, invalid, snapshot, updated) ==
    [message |-> SuccessMessage,
     invalid |-> invalid, jobs_df |-> snapshot, jobs_updated |-> TRUE]

\* jobs_df = edited_jobs_df; jobs_updated = True; st.success(...)
on_valid(cleaned, invalid, snapshot, updated) ==
    [message |-> SuccessMessage,
     invalid |-> invalid, jobs_df |-> cleaned, jobs_updated |-> TRUE]

\* the "Generate Graph" branch of main
generate(edited, snapshot, updated) ==
    LET cleaned == dropna(edited)
        invalid == validate_dependencies(cleaned)
    IN IF is_blank(cleaned) THEN on_blank(cleaned, invalid, snapshot, updated)
       ELSE IF invalid # <<>> THEN on_invalid(cleaned, invalid, snapshot, updated)
       ELSE on_valid(cleaned, invalid, snapshot, updated)

\* the branch not taken: the button was not pressed in this run
no_button(snapshot, updated) ==
    [message |-> "", invalid |-> <<>>, jobs_df |-> snapshot, jobs_updated |-> updated]

\* lines 126-134: render the stored snapshot when the flag is set; an
\* exception raised by visualize_jobs leaves main() uncaught
Main(button) ==
    LET b == IF button THEN generate(edited_jobs_df, jobs_df, jobs_updated)
                       ELSE no_button(jobs_df, jobs_updated)
        v == visualize_jobs(b.jobs_df)
    IN /\ message' = b.message
       /\ invalid_dependencies' = b.invalid
       /\ jobs_df' = b.jobs_df
       /\ jobs_updated' = b.jobs_updated
       /\ IF b.jobs_updated
          THEN /\ G' = v.G
               /\ layers' = v.layers
               /\ ordered_jobs_df' = v.ordered_jobs_df
               /\ uncaught' = IF v.raised THEN "NetworkXUnfeasible" ELSE ""
          ELSE /\ G' = NoGraph
               /\ layers' = NoLayers
               /\ ordered_jobs_df' = NotShown
               /\ uncaught' = ""
       /\ pc' = pc

Init ==
    /\ jobs_df = EmptyDataFrame
    /\ jobs_updated = FALSE
    /\ edited_jobs_df = EmptyDataFrame
    /\ message = ""
    /\ invalid_dependencies = <<>>
    /\ G = NoGraph
    /\ layers = NoLayers
    /\ ordered_jobs_df = NotShown
    /\ uncaught = ""
    /\ pc = "main"

\* the user adds a row in the data editor; the script re-runs
EditAddRow(row) ==
    /\ Len(edited_jobs_df) < MaxEditorRows
    /\ edited_jobs_df' = Append(edited_jobs_df, row)
    /\ Main(FALSE)

\* the user deletes a row in the data editor; the script re-runs
EditDeleteRow(i) ==
    /\ i \in 1..Len(edited_jobs_df)
    /\ edited_jobs_df' =
           SubSeq(edited_jobs_df, 1, i - 1)
           \o SubSeq(edited_jobs_df, i + 1, Len(edited_jobs_df))
    /\ Main(FALSE)

\* the user presses "Generate Graph"
GenerateGraph ==
    /\ edited_jobs_df' = edited_jobs_df
    /\ Main(TRUE)

\* any other interaction (the orientation selectbox) re-runs the script
Rerun ==
    /\ edited_jobs_df' = edited_jobs_df
    /\ Main(FALSE)

Next ==
    \/ \E row \in EditorRows : EditAddRow(row)
    \/ \E i \in 1..MaxEditorRows : EditDeleteRow(i)
    \/ GenerateGraph
    \/ Rerun

Spec == Init /\ [][Next]_vars

----------------------------------------------------------------------------
(* The pure functions applied to one table *)

PipelineInit ==
    /\ IsInputTable(edited_jobs_df)
    /\ jobs_df = EmptyDataFrame
    /\ jobs_updated = FALSE
    /\ message = ""
    /\ invalid_dependencies = <<>>
    /\ G = NoGraph
    /\ layers = NoLayers
    /\ ordered_jobs_df = NotShown
    /\ uncaught = ""
    /\ pc = "input"

Validate ==
    /\ pc = "input"
    /\ invalid_dependencies' = validate_dependencies(edited_jobs_df)
    /\ pc' = "validated"
    /\ UNCHANGED <<jobs_df, jobs_updated, edited_jobs_df, message,
                   G, layers, ordered_jobs_df, uncaught>>

Visualize ==
    /\ pc = "validated"
    /\ LET v == visualize_jobs(edited_jobs_df)
       IN /\ G' = v.G
          /\ layers' = v.layers
          /\ ordered_jobs_df' = v.ordered_jobs_df
          /\ uncaught' = IF v.raised THEN "NetworkXUnfeasible" ELSE ""
    /\ pc' = "done"
    /\ UNCHANGED <<jobs_df, jobs_updated, edited_jobs_df, message,
                   invalid_dependencies>>

PipelineNext == Validate \/ Visualize

PipelineSpec == PipelineInit /\ [][PipelineNext]_vars

----------------------------------------------------------------------------
(* Graph notions used by the properties, defined on the edge relation *)

Edges(g) == {e \in NodeSet(g) \X NodeSet(g) : e[2] \in Range(g.succ[e[1]])}

RECURSIVE Closure(_)
Closure(R) ==
    LET R2 == R \cup {<<p[1], q[2]>> : <<p, q>> \in {pq \in R \X R : pq[1][2] = pq[2][1]}}
    IN IF R2 = R THEN R ELSE Closure(R2)

HasCycle(g) == \E n \in NodeSet(g) : <<n, n>> \in Closure(Edges(g))

Preds(g, n) == {e[1] : e \in {d \in Edges(g) : d[2] = n}}

\* the largest m such that a chain of m edges ends in the frontier's origin:
\* frontier holds the first nodes of the chains of m edges
RECURSIVE LongestChain(_, _, _)
LongestChain(g, frontier, m) ==
    LET before == UNION {Preds(g, x) : x \in frontier}
    IN IF before = {} \/ m >= Cardinality(NodeSet(g)) THEN m
       ELSE LongestChain(g, before, m + 1)

LongestChainTo(g, n) == LongestChain(g, {n}, 0)

LayerAt(n) == Get(layers.items, n)

Layered == pc = "done" /\ ~HasCycle(G)

----------------------------------------------------------------------------
(* Properties of the pure functions (PipelineSpec) *)

\* C1: when the built graph is acyclic, assign_layers returns a layer for
\* every node and every edge u -> v of the graph has layer[u] < layer[v].
C1_EdgesAscend ==
    Layered =>
        /\ layers.returned
        /\ Keys(layers.items) = NodeSet(G)
        /\ \A e \in Edges(G) : LayerAt(e[1]) < LayerAt(e[2])

C1_Witness ==
    /\ Layered
    /\ invalid_dependencies = <<>>
    /\ layers.returned
    /\ \E e, f \in Edges(G) : e[2] = f[1] /\ LayerAt(e[1]) < LayerAt(f[2])

\* C2: when the built graph is acyclic, the layer of a node is the length of
\* the longest chain of edges ending at it: 0 exactly for the nodes without
\* incoming edge, and 1 + the largest layer of a direct predecessor otherwise.
C2_LayerIsLongestChain ==
    Layered =>
        /\ layers.returned
        /\ \A n \in NodeSet(G) :
              /\ LayerAt(n) = LongestChainTo(G, n)
              /\ (LayerAt(n) = 0) <=> (Preds(G, n) = {})
              /\ Preds(G, n) # {} =>
                    LayerAt(n) = 1 + Max({LayerAt(p) : p \in Preds(G, n)})

C2_Witness ==
    /\ Layered
    /\ layers.returned
    /\ \E n \in NodeSet(G) :
          /\ LayerAt(n) = 2
          /\ \E p, q \in Preds(G, n) : LayerAt(p) = 0 /\ LayerAt(q) = 1

\* the trimmed tokens of row i of df that are the ID of no row of df
InvalidTokens(df, i) ==
    LET toks == dependencies_of(df[i])
        Unknown(d) == \A r \in 1..Len(df) : df[r].ID # d
    IN SelectSeq([j \in 1..Len(toks) |-> strip(toks[j])], Unknown)

Validated == pc \in {"validated", "done"}

\* the invalid tokens of the rows of df that carry this ID, in row order
RECURSIVE InvalidTokensOfJob(_, _, _)
InvalidTokensOfJob(df, id, i) ==
    IF i > Len(df) THEN <<>>
    ELSE (IF df[i].ID = id THEN InvalidTokens(df, i) ELSE <<>>)
         \o InvalidTokensOfJob(df, id, i + 1)

\* C3: the report of validate_dependencies names, for each job ID, every
\* trimmed token of that job that is no job's ID and nothing else, and has no
\* entry for a job without such a token; it is empty iff every trimmed token
\* of every job is some job's ID.
C3_ReportPerJob ==
    Validated =>
        /\ \A id \in job_ids(edited_jobs_df) :
              IF InvalidTokensOfJob(edited_jobs_df, id, 1) # <<>>
              THEN /\ id \in Keys(invalid_dependencies)
                   /\ Range(Get(invalid_dependencies, id))
                          = Range(InvalidTokensOfJob(edited_jobs_df, id, 1))
              ELSE id \notin Keys(invalid_dependencies)
        /\ Keys(invalid_dependencies) \subseteq job_ids(edited_jobs_df)
        /\ (invalid_dependencies = <<>>) <=>
              \A i \in 1..Len(edited_jobs_df) : InvalidTokens(edited_jobs_df, i) = <<>>

\* the table with every dependency token trimmed
TrimmedTable(df) ==
    [i \in 1..Len(df) |->
        IF Truthy(df[i].Dependencies)
        THEN [df[i] EXCEPT !.Dependencies = join(StripAll(split(@)))]
        ELSE df[i]]

\* C8: for a table that passes validation, the built graph has exactly the
\* job IDs as nodes, and the edges and layers of the graph built from the
\* table with every dependency token trimmed.
C8_TokensTrimmedBeforeBuild ==
    (pc = "done" /\ invalid_dependencies = <<>>) =>
        LET t == visualize_jobs(TrimmedTable(edited_jobs_df))
        IN /\ NodeSet(G) = job_ids(edited_jobs_df)
           /\ Edges(G) = Edges(t.G)
           /\ layers = t.layers

\* position of the first row of df with the given ID
FirstRow(df, id) == CHOOSE i \in 1..Len(df) :
                        df[i].ID = id /\ \A j \in 1..(i - 1) : df[j].ID # id

Accepted == pc = "done" /\ invalid_dependencies = <<>> /\ ~HasCycle(G)

SortedByLayer(rows) ==
    \A i, j \in 1..Len(rows) : i < j => rows[i].Layer <= rows[j].Layer

\* C9 as stated, for the snapshots whose graph has the jobs as its only
\* nodes: the ordered table is sorted by layer and rows of equal layer follow
\* the order of their jobs in the input table.
C9_TiesInInputOrder ==
    (Accepted /\ NodeSet(G) = job_ids(edited_jobs_df)) =>
        LET rows == ordered_jobs_df.rows
        IN /\ ordered_jobs_df.shown
           /\ SortedByLayer(rows)
           /\ \A i, j \in 1..Len(rows) :
                 (i < j /\ rows[i].Layer = rows[j].Layer)
                 => FirstRow(edited_jobs_df, rows[i].JobID)
                        < FirstRow(edited_jobs_df, rows[j].JobID)

\* the name the last row with this ID gives, NaN for a node that is no job
NameOf(df, id) ==
    IF id \in job_ids(df)
    THEN df[CHOOSE i \in 1..Len(df) :
                df[i].ID = id /\ \A j \in (i + 1)..Len(df) : df[j].ID # id].Name
    ELSE NaN

\* C9 amended: the ordered table has one (layer + 1, id, name) row per node
\* of the graph, sorted by layer, and rows of equal layer follow the order in
\* which assign_layers visited their nodes.
C9_TiesInVisitOrder ==
    Accepted =>
        LET rows == ordered_jobs_df.rows
        IN /\ ordered_jobs_df.shown
           /\ SortedByLayer(rows)
           /\ Len(rows) = Cardinality(NodeSet(G))
           /\ {rows[i].JobID : i \in 1..Len(rows)} = NodeSet(G)
           /\ \A i \in 1..Len(rows) :
                 /\ rows[i].Layer = LayerAt(rows[i].JobID) + 1
                 /\ rows[i].Name = NameOf(edited_jobs_df, rows[i].JobID)
           /\ \A i, j \in 1..Len(rows) :
                 (i < j /\ rows[i].Layer = rows[j].Layer)
                 => Lookup(layers.items, rows[i].JobID)
                        < Lookup(layers.items, rows[j].JobID)

\* two jobs of one layer listed against the input order, below a later layer
C9_Witness ==
    /\ Accepted
    /\ NodeSet(G) = job_ids(edited_jobs_df)
    /\ ordered_jobs_df.shown
    /\ \E i, j, k \in 1..Len(ordered_jobs_df.rows) :
          LET rows == ordered_jobs_df.rows
          IN /\ i < j /\ j < k
             /\ rows[i].Layer = rows[j].Layer
             /\ rows[j].Layer < rows[k].Layer
             /\ rows[i].JobID \in job_ids(edited_jobs_df)
             /\ rows[j].JobID \in job_ids(edited_jobs_df)
             /\ FirstRow(edited_jobs_df, rows[j].JobID)
                    < FirstRow(edited_jobs_df, rows[i].JobID)

----------------------------------------------------------------------------
(* Properties of main over session_state (Spec) *)

\* this run built no graph, computed no layering and rendered nothing
NothingVisualized ==
    /\ ~G.built
    /\ ~layers.returned
    /\ ~ordered_jobs_df.shown
    /\ uncaught = ""

\* the graph of a table, built as main builds it
GraphOf(df) == build_dependency_graph(process_jobs_from_input(df)).G

\* C4: a snapshot that passed validation and whose graph has a cycle yields
\* no layer assignment, and the failure is reported by main instead of an
\* exception leaving it.
C4_CycleReported ==
    (jobs_updated /\ HasCycle(GraphOf(jobs_df))) =>
        /\ ~layers.returned
        /\ ~ordered_jobs_df.shown
        /\ uncaught = ""

\* C5: a generate action on a table that has rows left and whose validation
\* report is non-empty leaves session_state jobs_df as it was.
C5_InvalidKeepsSnapshot ==
    [][(/\ message' # ""
        /\ dropna(edited_jobs_df) # <<>>
        /\ validate_dependencies(dropna(edited_jobs_df)) # <<>>)
       => jobs_df' = jobs_df]_vars

C5_Witness ==
    /\ message = InvalidMessage
    /\ invalid_dependencies # <<>>
    /\ jobs_df # <<>>
    /\ jobs_df # dropna(edited_jobs_df)

\* C6: a run whose generate action reports invalid dependencies visualizes
\* nothing, and no later run does until a generate action succeeds.
C6_ValidationGate ==
    [][/\ (message' # "" /\ validate_dependencies(dropna(edited_jobs_df)) # <<>>)
          => (~jobs_updated' /\ NothingVisualized')
       /\ (~jobs_updated /\ message' # SuccessMessage)
          => (~jobs_updated' /\ NothingVisualized')]_vars

\* a later run without the button, after a snapshot was accepted and a later
\* generate action failed validation
C6_Witness ==
    /\ message = ""
    /\ jobs_df # <<>>
    /\ ~jobs_updated
    /\ NothingVisualized

\* C7: a generate action on a table with no complete row reports the
\* blocking message and visualizes nothing in that run.
C7_BlankStopsRun ==
    message = BlankMessage => NothingVisualized

\* C10: from every reachable state, a generate action on a table that has
\* rows left, passes validation and is acyclic stores exactly that table,
\* sets the flag and shows that table's layering in the same run.
C10_Recoverable ==
    [][LET cleaned == dropna(edited_jobs_df)
       IN (/\ message' # ""
           /\ cleaned # <<>>
           /\ validate_dependencies(cleaned) = <<>>
           /\ ~HasCycle(GraphOf(cleaned)))
          => /\ jobs_df' = cleaned
             /\ jobs_updated'
             /\ message' = SuccessMessage
             /\ uncaught' = ""
             /\ Edges(G') = Edges(GraphOf(cleaned))
             /\ layers'.returned
             /\ ordered_jobs_df'.shown
             /\ {ordered_jobs_df'.rows[i].JobID :
                    i \in 1..Len(ordered_jobs_df'.rows)} = NodeSet(GraphOf(cleaned))]_vars

\* a one-job snapshot accepted and layered, the editor holding it plus an
\* incomplete row that was dropped
C10_Witness ==
    /\ message = SuccessMessage
    /\ jobs_updated
    /\ Len(jobs_df) = 1
    /\ Len(edited_jobs_df) = 2
    /\ jobs_df = dropna(edited_jobs_df)
    /\ ordered_jobs_df.shown
    /\ uncaught = ""

====
